---------------------------- MODULE Spec2Model ----------------------------
(***************************************************************************)
(* Verification model of these pieces of pySDC:                            *)
(*   - nonlinear_ODE_1.solve_system, the scalar Newton iteration           *)
(*     (implementations/problem_classes/nonlinear_ODE_1.py);               *)
(*   - the matrices, residuals and Jacobians assembled for the             *)
(*     generalized Fisher equation (GeneralizedFisher_1D_PETSc.py):        *)
(*     __get_A, get_sys_mat, Fisher_full, Fisher_reaction;                 *)
(*   - the solve_system* methods of the petsc_fisher_* problem classes and *)
(*     their iteration counters, called one after the other and called     *)
(*     from two threads;                                                   *)
(*   - get_finite_difference_stencil (helpers/problem_helper.py) with the  *)
(*     reference values of tests/test_helpers.py.                          *)
(*                                                                         *)
(* Numbers.  The Newton iteration works on float64 values; they are        *)
(* modelled as fixed-point numbers (an integer v stands for v / Scale)     *)
(* extended with the IEEE specials nan, +inf and -inf, every operation     *)
(* rounding to the nearest representable value.  The Fisher matrices are  *)
(* polynomial in their inputs and are modelled with exact rationals.       *)
(***************************************************************************)
EXTENDS Integers, Sequences, FiniteSets, TLC

VARIABLES
    \* ---- nonlinear_ODE_1 -------------------------------------------------
    params,      \* the problem's read-only attributes: newton_maxiter, newton_tol, stop_at_nan
    args,        \* the arguments of the running solve_system call: rhs, dt, u0
    npc,         \* position inside solve_system
    u,           \* the iterate (local mesh u)
    n,           \* the iteration count (local n)
    res,         \* the last residual norm computed (local res)
    nstate,      \* iterating / converged / diverged-nan / exhausted
    warned,      \* whether logger.warning was called
    outcome,     \* how the call ended: a returned value or a raised ProblemError
    \* ---- Fisher matrices and providers -----------------------------------
    prob,        \* the problem's attributes: nvars, interval, lambda0, nu
    A,           \* self.A, the matrix assembled by __get_A at construction
    call,        \* the running call: operation, factor, input vector, handles J and P
    apc,         \* position inside the call
    row,         \* loop variable i of formJacobian
    mats,        \* the PETSc matrices by handle: entries, zeroEntries/assemble counts
    calls,       \* the calls made on the matrices so far, in order
    result,      \* the value the call returned
    \* ---- petsc_fisher_* solve_system and counters ------------------------
    cls,         \* the problem class of the instance
    ksp_itercount,
    ksp_ncalls,
    snes_itercount,
    snes_ncalls,
    ksp_op,      \* the operator set on self.ksp
    snes_reg,    \* the residual/Jacobian provider registered on self.snes
    fpc,         \* position inside the running solve call
    fcall,       \* the running solve call: method, factor
    backend,     \* what the backend solve of the running call did
    fout,        \* how the last solve call ended
    started,     \* number of solve calls started so far
    completed,   \* history: the backend solves that returned, in order, with the
                 \* iteration number each reported
    \* ---- solve calls of several threads on one instance ------------------
    th,          \* per thread: position in its solve call, the call, its locals
    snes_jac,    \* the Jacobian provider registered on self.snes (snes_reg is then
                 \* the residual provider alone)
    last_its,    \* per backend, the iteration number getIterationNumber() returns
    overlap,     \* history: two calls have been in progress at the same time
    \* ---- get_finite_difference_stencil ----------------------------------
    sreq,        \* the arguments of the call: derivative, order, stencil_type, steps
    spc,         \* position inside the call
    ssteps,      \* the offsets (steps)
    scoeff,      \* the weights computed so far, in the order of the offsets
    sout         \* what the call returned or raised

newtonVars == <<params, args, npc, u, n, res, nstate, warned, outcome>>
asmVars    == <<prob, A, call, apc, row, mats, calls, result>>
facVars    == <<cls, ksp_itercount, ksp_ncalls, snes_itercount, snes_ncalls, ksp_op, snes_reg,
                fpc, fcall, backend, fout, started, completed>>
ovVars     == <<th, snes_jac, last_its, overlap>>
stVars     == <<sreq, spc, ssteps, scoeff, sout>>
vars       == <<newtonVars, asmVars, facVars, ovVars, stVars>>

-----------------------------------------------------------------------------
(***************************************************************************)
(* Bounds of the model.                                                    *)
(***************************************************************************)
MaxIter == 3      \* newton_maxiter ranges over 0..MaxIter
MaxN    == 5      \* nvars ranges over 2..MaxN
MaxCalls == 3     \* solve calls made on one problem instance
MaxIts  == 2      \* iteration numbers a backend solve may report: 0..MaxIts

-----------------------------------------------------------------------------
(***************************************************************************)
(* float64, modelled in fixed point with nan and the infinities.           *)
(***************************************************************************)
Scale == 1000

Fin(v) == [k |-> "fin", v |-> v]
NaN    == [k |-> "nan", v |-> 0]
PInf   == [k |-> "inf", v |-> 1]
NInf   == [k |-> "inf", v |-> -1]

IsNaN(a) == a.k = "nan"
IsInf(a) == a.k = "inf"
IsFin(a) == a.k = "fin"
Sgn(v)   == IF v > 0 THEN 1 ELSE IF v < 0 THEN -1 ELSE 0
InfOf(s) == IF s > 0 THEN PInf ELSE NInf
AbsI(v)  == IF v < 0 THEN -v ELSE v

\* p / q rounded to the nearest integer, q > 0; like IEEE rounding it is
\* symmetric: RoundDiv(-p, q) = -RoundDiv(p, q)
RoundDiv(p, q) ==
    IF p >= 0 THEN (2 * p + q) \div (2 * q) ELSE -((2 * (-p) + q) \div (2 * q))

FNeg(a) == IF IsNaN(a) THEN NaN ELSE [k |-> a.k, v |-> -a.v]

FAdd(a, b) ==
    IF IsNaN(a) \/ IsNaN(b) THEN NaN
    ELSE IF IsInf(a) /\ IsInf(b) THEN (IF a.v = b.v THEN a ELSE NaN)
    ELSE IF IsInf(a) THEN a
    ELSE IF IsInf(b) THEN b
    ELSE Fin(a.v + b.v)

FSub(a, b) == FAdd(a, FNeg(b))

FMul(a, b) ==
    IF IsNaN(a) \/ IsNaN(b) THEN NaN
    ELSE IF IsInf(a) \/ IsInf(b)
         THEN (IF Sgn(a.v) * Sgn(b.v) = 0 THEN NaN ELSE InfOf(Sgn(a.v) * Sgn(b.v)))
    ELSE Fin(RoundDiv(a.v * b.v, Scale))

\* numpy division: x/0 is +-inf, 0/0 is nan (a warning, no exception)
FDiv(a, b) ==
    IF IsNaN(a) \/ IsNaN(b) THEN NaN
    ELSE IF IsInf(a) /\ IsInf(b) THEN NaN
    ELSE IF IsInf(a) THEN InfOf(Sgn(a.v) * (IF b.v < 0 THEN -1 ELSE 1))
    ELSE IF IsInf(b) THEN Fin(0)
    ELSE IF b.v = 0 THEN (IF a.v = 0 THEN NaN ELSE InfOf(Sgn(a.v)))
    ELSE Fin(Sgn(b.v) * RoundDiv(a.v * Scale, AbsI(b.v)))

RECURSIVE ISqrtIter(_, _, _)
\* the largest r in lo..hi with r*r <= m (bisection)
ISqrtIter(m, lo, hi) ==
    IF lo >= hi THEN lo
    ELSE LET mid == (lo + hi + 1) \div 2
         IN  IF mid * mid <= m THEN ISqrtIter(m, mid, hi) ELSE ISqrtIter(m, lo, mid - 1)

\* 46340 is the largest integer whose square is below 2^31
ISqrt(m) == ISqrtIter(m, 0, IF m > 46340 THEN 46340 ELSE m)

\* numpy sqrt: nan for a negative argument (a warning, no exception)
FSqrt(a) ==
    IF IsNaN(a) THEN NaN
    ELSE IF IsInf(a) THEN (IF a.v > 0 THEN PInf ELSE NaN)
    ELSE IF a.v < 0 THEN NaN
    ELSE Fin(ISqrt(a.v * Scale))

\* a < b as Python/numpy evaluates it: False when either side is nan
FLess(a, b) ==
    IF IsNaN(a) \/ IsNaN(b) THEN FALSE
    ELSE IF IsInf(a) THEN (a.v < 0 /\ ~(IsInf(b) /\ b.v < 0))
    ELSE IF IsInf(b) THEN b.v > 0
    ELSE a.v < b.v

\* np.linalg.norm(g, np.inf) of the one-component mesh g (nvars = 1): |g|
NormInf(g) ==
    IF IsNaN(g) THEN NaN
    ELSE IF IsInf(g) THEN PInf
    ELSE Fin(AbsI(g.v))

One == Fin(Scale)
Two == Fin(2 * Scale)

-----------------------------------------------------------------------------
(***************************************************************************)
(* nonlinear_ODE_1.solve_system                                            *)
(***************************************************************************)
Res0 == 99    \* res = 99 before the loop

\* g = u - dt * np.sqrt(1 - u) - rhs
Residual(uu, dt, rhs) == FSub(FSub(uu, FMul(dt, FSqrt(FSub(One, uu)))), rhs)

\* a derivative with the sign of the dt term wrong
Derivative_Minus(uu, dt) == FSub(One, FDiv(dt, FMul(Two, FSqrt(FSub(One, uu)))))

\* dg = 1 - (-dt) / (2 * np.sqrt(1 - u))
Derivative(uu, dt) == FSub(One, FDiv(FNeg(dt), FMul(Two, FSqrt(FSub(One, uu)))))

\* u -= 1.0 / dg * g
NewtonUpdate(uu, dt, rhs) ==
    FSub(uu, FMul(FDiv(One, Derivative(uu, dt)), Residual(uu, dt, rhs)))

\* a break test that forgets the nan case
BreakTest_NoNan(r, tol) == FLess(r, tol)

\* the test that leaves the loop: res < self.newton_tol or np.isnan(res)
BreakTest(r, tol) == FLess(r, tol) \/ IsNaN(r)

\* an exhaustion test that is off by one
ExhaustedTest_OffByOne(cnt, maxiter) == cnt = maxiter + 1

\* the test that raises after the loop: n == self.newton_maxiter
ExhaustedTest(cnt, maxiter) == cnt = maxiter

NoOutcome == [kind |-> "none", val |-> NaN, n |-> 0, res |-> NaN, why |-> "none"]

U0Vals  == {Fin(0), Fin(500), Fin(900), Fin(1000), Fin(1500)}
RhsVals == {Fin(0), Fin(500), Fin(1000)}
DtVals  == {Fin(-1000), Fin(0), Fin(100), Fin(1000)}
TolVals == {Fin(5), Fin(50)}

NewtonInit ==
    /\ params \in [newton_maxiter : 0..MaxIter, newton_tol : TolVals, stop_at_nan : BOOLEAN]
    /\ args = [rhs |-> Fin(0), dt |-> Fin(0), u0 |-> Fin(0)]
    /\ npc = "idle"
    /\ u = Fin(0)
    /\ n = 0
    /\ res = Fin(Res0 * Scale)
    /\ nstate = "iterating"
    /\ warned = FALSE
    /\ outcome = NoOutcome

\* entry of solve_system: u = self.dtype_u(u0); n = 0; res = 99
NewtonCall ==
    /\ npc = "idle"
    /\ \E r \in RhsVals, d \in DtVals, g0 \in U0Vals :
          /\ args' = [rhs |-> r, dt |-> d, u0 |-> g0]
          /\ u' = g0
    /\ n' = 0
    /\ res' = Fin(Res0 * Scale)
    /\ nstate' = "iterating"
    /\ npc' = "loop"
    /\ UNCHANGED <<params, warned, outcome, asmVars, facVars, ovVars, stVars>>

\* the loop condition, the residual and the break test
NewtonTest ==
    /\ npc = "loop"
    /\ IF n < params.newton_maxiter
       THEN LET r == NormInf(Residual(u, args.dt, args.rhs))
            IN  /\ res' = r
                /\ IF BreakTest(r, params.newton_tol)
                   THEN /\ npc' = "after"
                        /\ nstate' = IF IsNaN(r) THEN "diverged-nan" ELSE "converged"
                   ELSE /\ npc' = "update"
                        /\ nstate' = nstate
       ELSE /\ npc' = "after"
            /\ nstate' = "exhausted"
            /\ res' = res
    /\ UNCHANGED <<params, args, u, n, warned, outcome, asmVars, facVars, ovVars, stVars>>

\* u = self.dtype_u(u0): whether u is the very object the caller passed as
\* u0 (it is not: dtype_u makes a new mesh holding the values of u0)
DtypeUAliases == FALSE

\* dg, the Newton update (u -= ..., in place on the object u) and n += 1
NewtonStep ==
    /\ npc = "update"
    /\ u' = NewtonUpdate(u, args.dt, args.rhs)
    /\ args' = IF DtypeUAliases THEN [args EXCEPT !.u0 = u'] ELSE args
    /\ n' = n + 1
    /\ npc' = "loop"
    /\ UNCHANGED <<params, res, nstate, warned, outcome, asmVars, facVars, ovVars, stVars>>

\* the statements after the loop: raise, warn, raise, return
NewtonFinish ==
    /\ npc = "after"
    /\ npc' = "done"
    /\ IF IsNaN(res) /\ params.stop_at_nan
       THEN /\ outcome' = [kind |-> "raise", val |-> NaN, n |-> n, res |-> res, why |-> "nan"]
            /\ warned' = warned
       ELSE /\ warned' = IsNaN(res)
            /\ IF ExhaustedTest(n, params.newton_maxiter)
               THEN outcome' = [kind |-> "raise", val |-> NaN, n |-> n, res |-> res,
                                why |-> "maxiter"]
               ELSE outcome' = [kind |-> "return", val |-> u, n |-> n, res |-> res,
                                why |-> "none"]
    /\ UNCHANGED <<params, args, u, n, res, nstate, asmVars, facVars, ovVars, stVars>>

NewtonNext == NewtonCall \/ NewtonTest \/ NewtonStep \/ NewtonFinish

-----------------------------------------------------------------------------
(***************************************************************************)
(* Exact rationals [n, d] in lowest terms with d > 0, for the Fisher       *)
(* matrices and vectors.                                                   *)
(***************************************************************************)
RECURSIVE GCD(_, _)
GCD(a, b) == IF b = 0 THEN a ELSE GCD(b, a % b)

RNorm(p, q) ==
    LET g == GCD(AbsI(p), AbsI(q))
    IN  [n |-> (Sgn(q) * p) \div g, d |-> AbsI(q) \div g]

RInt(k)    == [n |-> k, d |-> 1]
Frac(p, q) == RNorm(p, q)
Zero       == RInt(0)
Uno        == RInt(1)
RAdd(a, b) == RNorm(a.n * b.d + b.n * a.d, a.d * b.d)
RSub(a, b) == RNorm(a.n * b.d - b.n * a.d, a.d * b.d)
RMul(a, b) == RNorm(a.n * b.n, a.d * b.d)
RDiv(a, b) == RNorm(a.n * b.d, a.d * b.n)
RNeg(a)    == [n |-> -a.n, d |-> a.d]

RECURSIVE RPow(_, _)
RPow(a, k) == IF k = 0 THEN Uno ELSE RMul(a, RPow(a, k - 1))

-----------------------------------------------------------------------------
(***************************************************************************)
(* PETSc matrices: the entries set so far, and how often zeroEntries and   *)
(* assemble were called on the matrix.                                     *)
(***************************************************************************)
NoEntries == [p \in {} |-> Zero]

\* self.init.createMatrix()
CreateMatrix == [ent |-> NoEntries, zeroed |-> 0, assembled |-> 0]

\* M.zeroEntries(): every stored entry becomes 0, the pattern is kept
ZeroEntries(M) ==
    [M EXCEPT !.ent = [p \in DOMAIN M.ent |-> Zero], !.zeroed = @ + 1]

\* M.setValueStencil(row, col, value), insert mode
SetValueStencil(M, r, c, v) == [M EXCEPT !.ent = (<<r, c>> :> v) @@ M.ent]

\* M.assemble()
Assemble(M) == [M EXCEPT !.assembled = @ + 1]

Entry(M, i, j) == IF <<i, j>> \in DOMAIN M.ent THEN M.ent[<<i, j>>] ELSE Zero
RowCols(M, i)  == {p[2] : p \in {q \in DOMAIN M.ent : q[1] = i}}

\* dx = (interval[1] - interval[0]) / (nvars - 1)
Dx(p)  == RDiv(RSub(p.interval[2], p.interval[1]), RInt(p.nvars - 1))
Dx2(p) == RMul(Dx(p), Dx(p))

\* a row loop body with the wrong centre weight, -1/dx^2
GetARow_Centre(M, i, mx, dx2) ==
    IF i = 0 \/ i = mx - 1
    THEN SetValueStencil(M, i, i, Uno)
    ELSE LET diag == RDiv(RInt(-1), dx2)
             off  == RDiv(Uno, dx2)
         IN  SetValueStencil(SetValueStencil(SetValueStencil(M,
                 i, i - 1, off), i, i, diag), i, i + 1, off)

\* the body of the row loop of __get_A for row i
GetARow(M, i, mx, dx2) ==
    IF i = 0 \/ i = mx - 1
    THEN SetValueStencil(M, i, i, Uno)
    ELSE LET diag == RDiv(RInt(-2), dx2)
             off  == RDiv(Uno, dx2)
         IN  SetValueStencil(SetValueStencil(SetValueStencil(M,
                 i, i - 1, off), i, i, diag), i, i + 1, off)

RECURSIVE GetALoop(_, _, _, _)
GetALoop(M, i, mx, dx2) ==
    IF i >= mx THEN M ELSE GetALoop(GetARow(M, i, mx, dx2), i + 1, mx, dx2)

\* petsc_fisher_multiimplicit.__get_A
GetA(p) == Assemble(GetALoop(ZeroEntries(CreateMatrix), 0, p.nvars, Dx2(p)))

\* a row loop body whose diagonal lost the factor 2
SysMatRow_Diag(M, i, mx, dx2, factor) ==
    IF i = 0 \/ i = mx - 1
    THEN SetValueStencil(M, i, i, Uno)
    ELSE LET diag == RAdd(Uno, RDiv(factor, dx2))
             off  == RDiv(RNeg(factor), dx2)
         IN  SetValueStencil(SetValueStencil(SetValueStencil(M,
                 i, i - 1, off), i, i, diag), i, i + 1, off)

\* the body of the row loop of get_sys_mat for row i
SysMatRow(M, i, mx, dx2, factor) ==
    IF i = 0 \/ i = mx - 1
    THEN SetValueStencil(M, i, i, Uno)
    ELSE LET diag == RAdd(Uno, RDiv(RMul(factor, RInt(2)), dx2))
             off  == RDiv(RNeg(factor), dx2)
         IN  SetValueStencil(SetValueStencil(SetValueStencil(M,
                 i, i - 1, off), i, i, diag), i, i + 1, off)

RECURSIVE SysMatLoop(_, _, _, _, _)
SysMatLoop(M, i, mx, dx2, factor) ==
    IF i >= mx THEN M
    ELSE SysMatLoop(SysMatRow(M, i, mx, dx2, factor), i + 1, mx, dx2, factor)

\* petsc_fisher_multiimplicit.get_sys_mat
GetSysMat(p, factor) ==
    Assemble(SysMatLoop(ZeroEntries(CreateMatrix), 0, p.nvars, Dx2(p), factor))

RECURSIVE RowDot(_, _, _, _)
\* sum over the columns j in cols of M[i, j] * x[j]
RowDot(M, i, x, cols) ==
    IF cols = {} THEN Zero
    ELSE LET j == CHOOSE c \in cols : TRUE
         IN  RAdd(RMul(M.ent[<<i, j>>], x[j]), RowDot(M, i, x, cols \ {j}))

\* M.mult(x, y): y = M x
MatMult(M, x) == [i \in DOMAIN x |-> RowDot(M, i, x, RowCols(M, i))]

\* self.lambda0**2 * xa[i] * (1 - xa[i] ** self.nu)
Reaction(p, xi) ==
    RMul(RMul(RPow(p.lambda0, 2), xi), RSub(Uno, RPow(xi, p.nu)))

\* fa[0] = 0; fa[-1] = 0
ZeroEnds(f, mx) == [i \in DOMAIN f |-> IF i = 0 \/ i = mx - 1 THEN Zero ELSE f[i]]

\* petsc_fisher_multiimplicit.eval_f: the two components of the right-hand
\* side, and the vector u as the call leaves it.  The statements write
\* through fa1 and fa2 (views of f.comp1 and f.comp2); xa, the view of u, is
\* only read.
EvalF(p, a, x) ==
    LET h0 == [u |-> x, comp1 |-> [i \in DOMAIN x |-> Zero], comp2 |-> [i \in DOMAIN x |-> Zero]]
        h1 == [h0 EXCEPT !.comp1 = MatMult(a, h0.u)]
        h2 == [h1 EXCEPT !.comp1 = ZeroEnds(@, p.nvars)]
        h3 == [h2 EXCEPT !.comp2 = [i \in DOMAIN x |-> Reaction(p, h2.u[i])]]
    IN  [h3 EXCEPT !.comp2 = ZeroEnds(@, p.nvars)]

\* an eval_f that stores the reaction term instead of adding it
EvalFFully_Assign(p, a, x) ==
    LET h0 == [u |-> x, f |-> [i \in DOMAIN x |-> Zero]]
        h1 == [h0 EXCEPT !.f = MatMult(a, h0.u)]
        h2 == [h1 EXCEPT !.f = [i \in DOMAIN x |-> Reaction(p, h1.u[i])]]
    IN  [h2 EXCEPT !.f = ZeroEnds(@, p.nvars)]

\* petsc_fisher_fullyimplicit.eval_f: self.A.mult(u, f); fa2[i] += reaction;
\* fa2[0] = 0; fa2[-1] = 0
EvalFFully(p, a, x) ==
    LET h0 == [u |-> x, f |-> [i \in DOMAIN x |-> Zero]]
        h1 == [h0 EXCEPT !.f = MatMult(a, h0.u)]
        h2 == [h1 EXCEPT !.f = [i \in DOMAIN x |-> RAdd(h1.f[i], Reaction(p, h1.u[i]))]]
    IN  [h2 EXCEPT !.f = ZeroEnds(@, p.nvars)]

\* petsc_fisher_semiimplicit.eval_f: as the multi-implicit one, the
\* components named impl and expl
EvalFSemi(p, a, x) ==
    LET h0 == [u |-> x, impl |-> [i \in DOMAIN x |-> Zero], expl |-> [i \in DOMAIN x |-> Zero]]
        h1 == [h0 EXCEPT !.impl = MatMult(a, h0.u)]
        h2 == [h1 EXCEPT !.impl = ZeroEnds(@, p.nvars)]
        h3 == [h2 EXCEPT !.expl = [i \in DOMAIN x |-> Reaction(p, h2.u[i])]]
    IN  [h3 EXCEPT !.expl = ZeroEnds(@, p.nvars)]

-----------------------------------------------------------------------------
(***************************************************************************)
(* The residual/Jacobian providers Fisher_full and Fisher_reaction.        *)
(***************************************************************************)
\* Fisher_full.formFunction: f[i] for one i
FullResidualAt(p, factor, x, i) ==
    IF i = 0 \/ i = p.nvars - 1
    THEN x[i]
    ELSE LET u_xx == RDiv(RAdd(RSub(x[i + 1], RMul(RInt(2), x[i])), x[i - 1]), Dx2(p))
         IN  RSub(x[i], RMul(factor, RAdd(u_xx, Reaction(p, x[i]))))

FullFormFunction(p, factor, x) == [i \in DOMAIN x |-> FullResidualAt(p, factor, x, i)]

\* Fisher_reaction.formFunction: f[i] for one i
ReactionResidualAt(p, factor, x, i) ==
    IF i = 0 \/ i = p.nvars - 1
    THEN x[i]
    ELSE RSub(x[i], RMul(RMul(RMul(factor, RPow(p.lambda0, 2)), x[i]),
                         RSub(Uno, RPow(x[i], p.nu))))

ReactionFormFunction(p, factor, x) ==
    [i \in DOMAIN x |-> ReactionResidualAt(p, factor, x, i)]

\* a Jacobian row that pins the left boundary only
FullJacobianRow_LeftOnly(p, factor, x, i) ==
    IF i = 0
    THEN << <<i, i, Uno>> >>
    ELSE LET diag == RSub(Uno, RMul(factor,
                       RAdd(RDiv(RInt(-2), Dx2(p)),
                            RMul(RPow(p.lambda0, 2),
                                 RSub(Uno, RMul(RInt(p.nu + 1), RPow(x[i], p.nu)))))))
             off  == RDiv(RNeg(factor), Dx2(p))
         IN  << <<i, i - 1, off>>, <<i, i, diag>>, <<i, i + 1, off>> >>

\* a Jacobian row that differentiates x^(nu+1) to nu * x^nu
FullJacobianRow_Nu(p, factor, x, i) ==
    IF i = 0 \/ i = p.nvars - 1
    THEN << <<i, i, Uno>> >>
    ELSE LET diag == RSub(Uno, RMul(factor,
                       RAdd(RDiv(RInt(-2), Dx2(p)),
                            RMul(RPow(p.lambda0, 2),
                                 RSub(Uno, RMul(RInt(p.nu), RPow(x[i], p.nu)))))))
             off  == RDiv(RNeg(factor), Dx2(p))
         IN  << <<i, i - 1, off>>, <<i, i, diag>>, <<i, i + 1, off>> >>

\* Fisher_full.formJacobian: the entries set for row i, in the order they are set
FullJacobianRow(p, factor, x, i) ==
    IF i = 0 \/ i = p.nvars - 1
    THEN << <<i, i, Uno>> >>
    ELSE LET diag == RSub(Uno, RMul(factor,
                       RAdd(RDiv(RInt(-2), Dx2(p)),
                            RMul(RPow(p.lambda0, 2),
                                 RSub(Uno, RMul(RInt(p.nu + 1), RPow(x[i], p.nu)))))))
             off  == RDiv(RNeg(factor), Dx2(p))
         IN  << <<i, i - 1, off>>, <<i, i, diag>>, <<i, i + 1, off>> >>

\* a reaction Jacobian row with lambda0 not squared
ReactionJacobianRow_Lambda(p, factor, x, i) ==
    IF i = 0 \/ i = p.nvars - 1
    THEN << <<i, i, Uno>> >>
    ELSE LET diag == RSub(Uno, RMul(RMul(factor, p.lambda0),
                       RSub(Uno, RMul(RInt(p.nu + 1), RPow(x[i], p.nu)))))
         IN  << <<i, i, diag>> >>

\* Fisher_reaction.formJacobian: the entries set for row i
ReactionJacobianRow(p, factor, x, i) ==
    IF i = 0 \/ i = p.nvars - 1
    THEN << <<i, i, Uno>> >>
    ELSE LET diag == RSub(Uno, RMul(RMul(factor, RPow(p.lambda0, 2)),
                       RSub(Uno, RMul(RInt(p.nu + 1), RPow(x[i], p.nu)))))
         IN  << <<i, i, diag>> >>

JacobianRow(provider, p, factor, x, i) ==
    IF provider = "Fisher_full"
    THEN FullJacobianRow(p, factor, x, i)
    ELSE ReactionJacobianRow(p, factor, x, i)

RECURSIVE SetAll(_, _)
\* the setValueStencil calls of one row, applied in order
SetAll(M, es) ==
    IF es = <<>> THEN M
    ELSE SetAll(SetValueStencil(M, Head(es)[1], Head(es)[2], Head(es)[3]), Tail(es))

SAME_NONZERO_PATTERN == "SAME_NONZERO_PATTERN"

RECURSIVE JacobianLoop(_, _, _, _, _, _)
JacobianLoop(M, provider, p, factor, x, i) ==
    IF i >= p.nvars THEN M
    ELSE JacobianLoop(SetAll(M, JacobianRow(provider, p, factor, x, i)),
                      provider, p, factor, x, i + 1)

\* what one whole formJacobian call leaves in P
FormJacobianP(M, provider, p, factor, x) ==
    Assemble(JacobianLoop(ZeroEntries(M), provider, p, factor, x, 0))

-----------------------------------------------------------------------------
(***************************************************************************)
(* One problem instance and one call on it.  The instance is constructed   *)
(* (self.A = self.__get_A()); then get_sys_mat, A.mult, eval_f, a          *)
(* provider's formFunction or a provider's formJacobian is called.         *)
(* formJacobian is followed statement by statement.                        *)
(***************************************************************************)
Intervals   == {<<RInt(0), RInt(1)>>}
LambdaVals  == {RInt(1), RInt(2)}
NuVals      == {1, 2}
FactorVals  == {Frac(1, 10), RInt(2)}
XVals       == {Zero, Frac(1, 2), Uno}     \* values at interior grid points
BVals       == {Zero, Frac(1, 2)}          \* values at the two boundary points
Providers   == {"Fisher_full", "Fisher_reaction"}
Handles     == {1, 2}

XVecs(mx)   ==
    {x \in [0..(mx - 1) -> XVals] : x[0] \in BVals /\ x[mx - 1] \in BVals}

NoCall   == [op |-> "none", provider |-> "none", factor |-> Zero, x |-> <<>>, J |-> 0, P |-> 0]
NoResult == [kind |-> "none"]

\* a matrix as SNES hands it over: fresh from createMatrix, or holding what
\* the previous formJacobian call of the same provider left in it
PreviousJacobian(provider, p) ==
    FormJacobianP(CreateMatrix, provider, p, Uno, [i \in 0..(p.nvars - 1) |-> Uno])

AsmInit ==
    /\ prob \in [nvars : 2..MaxN, interval : Intervals, lambda0 : LambdaVals, nu : NuVals]
    /\ A = GetA(prob)
    /\ call = NoCall
    /\ apc = "ready"
    /\ row = 0
    /\ mats = [h \in Handles |-> CreateMatrix]
    /\ calls = <<>>
    /\ result = NoResult

CallGetSysMat ==
    /\ apc = "ready"
    /\ \E f \in FactorVals :
          /\ call' = [NoCall EXCEPT !.op = "get_sys_mat", !.factor = f]
          /\ result' = [kind |-> "matrix", val |-> GetSysMat(prob, f)]
    /\ apc' = "done"
    /\ UNCHANGED <<prob, A, row, mats, calls, newtonVars, facVars, ovVars, stVars>>

CallMult ==
    /\ apc = "ready"
    /\ \E x \in XVecs(prob.nvars) :
          /\ call' = [NoCall EXCEPT !.op = "mult", !.x = x]
          /\ result' = [kind |-> "vector", val |-> MatMult(A, x)]
    /\ apc' = "done"
    /\ UNCHANGED <<prob, A, row, mats, calls, newtonVars, facVars, ovVars, stVars>>

CallEvalF ==
    /\ apc = "ready"
    /\ \E x \in XVecs(prob.nvars) :
          /\ call' = [NoCall EXCEPT !.op = "eval_f", !.x = x]
          /\ result' = [kind |-> "comp2", val |-> EvalF(prob, A, x)]
    /\ apc' = "done"
    /\ UNCHANGED <<prob, A, row, mats, calls, newtonVars, facVars, ovVars, stVars>>

\* eval_f of a petsc_fisher_fullyimplicit instance
CallEvalFFully ==
    /\ apc = "ready"
    /\ \E x \in XVecs(prob.nvars) :
          /\ call' = [NoCall EXCEPT !.op = "eval_f_fully", !.x = x]
          /\ result' = [kind |-> "vector_f", val |-> EvalFFully(prob, A, x)]
    /\ apc' = "done"
    /\ UNCHANGED <<prob, A, row, mats, calls, newtonVars, facVars, ovVars, stVars>>

\* eval_f of a petsc_fisher_semiimplicit instance
CallEvalFSemi ==
    /\ apc = "ready"
    /\ \E x \in XVecs(prob.nvars) :
          /\ call' = [NoCall EXCEPT !.op = "eval_f_semi", !.x = x]
          /\ result' = [kind |-> "imex", val |-> EvalFSemi(prob, A, x)]
    /\ apc' = "done"
    /\ UNCHANGED <<prob, A, row, mats, calls, newtonVars, facVars, ovVars, stVars>>

CallFormFunction ==
    /\ apc = "ready"
    /\ \E pr \in Providers, f \in FactorVals, x \in XVecs(prob.nvars) :
          /\ call' = [NoCall EXCEPT !.op = "formFunction", !.provider = pr,
                                    !.factor = f, !.x = x]
          /\ result' = [kind |-> "vector",
                        val |-> IF pr = "Fisher_full"
                                THEN FullFormFunction(prob, f, x)
                                ELSE ReactionFormFunction(prob, f, x)]
    /\ apc' = "done"
    /\ UNCHANGED <<prob, A, row, mats, calls, newtonVars, facVars, ovVars, stVars>>

\* how SNES calls formJacobian(snes, X, J, P): P is handle 1, fresh from
\* createMatrix or used by an earlier call; J is P itself or, in matrix-free
\* operator mode, the separate handle 2
Handovers ==
    {[J |-> 1, used |-> FALSE], [J |-> 1, used |-> TRUE], [J |-> 2, used |-> TRUE]}

\* entry of formJacobian(snes, X, J, P)
CallFormJacobian ==
    /\ apc = "ready"
    /\ \E pr \in Providers, f \in FactorVals, x \in XVecs(prob.nvars), h \in Handovers :
          /\ call' = [op |-> "formJacobian", provider |-> pr, factor |-> f, x |-> x,
                      J |-> h.J, P |-> 1]
          /\ mats' = [mats EXCEPT ![1] = IF h.used THEN PreviousJacobian(pr, prob)
                                         ELSE CreateMatrix]
    /\ apc' = "zero"
    /\ UNCHANGED <<prob, A, row, calls, result, newtonVars, facVars, ovVars, stVars>>

\* P.zeroEntries()
JacZero ==
    /\ apc = "zero"
    /\ mats' = [mats EXCEPT ![call.P] = ZeroEntries(@)]
    /\ calls' = Append(calls, [op |-> "zeroEntries", h |-> call.P, via |-> "P"])
    /\ row' = 0
    /\ apc' = "rows"
    /\ UNCHANGED <<prob, A, call, result, newtonVars, facVars, ovVars, stVars>>

\* one pass of: for i in range(xs, xe)
JacRow ==
    /\ apc = "rows"
    /\ row < prob.nvars
    /\ LET es == JacobianRow(call.provider, prob, call.factor, call.x, row)
       IN  /\ mats' = [mats EXCEPT ![call.P] = SetAll(@, es)]
           /\ calls' = calls \o [k \in 1..Len(es) |->
                                   [op |-> "setValueStencil", h |-> call.P, via |-> "P"]]
    /\ row' = row + 1
    /\ UNCHANGED <<prob, A, call, apc, result, newtonVars, facVars, ovVars, stVars>>

\* P.assemble() followed by an unconditional J.assemble()
JacAssembleP_Always ==
    /\ apc = "rows"
    /\ row >= prob.nvars
    /\ mats' = [mats EXCEPT ![call.P] = Assemble(@)]
    /\ calls' = Append(calls, [op |-> "assemble", h |-> call.P, via |-> "P"])
    /\ apc' = "asmJ"
    /\ UNCHANGED <<prob, A, call, row, result, newtonVars, facVars, ovVars, stVars>>

\* P.assemble()
JacAssembleP ==
    /\ apc = "rows"
    /\ row >= prob.nvars
    /\ mats' = [mats EXCEPT ![call.P] = Assemble(@)]
    /\ calls' = Append(calls, [op |-> "assemble", h |-> call.P, via |-> "P"])
    /\ apc' = IF call.J # call.P THEN "asmJ" ELSE "ret"
    /\ UNCHANGED <<prob, A, call, row, result, newtonVars, facVars, ovVars, stVars>>

\* if J != P: J.assemble()
JacAssembleJ ==
    /\ apc = "asmJ"
    /\ mats' = [mats EXCEPT ![call.J] = Assemble(@)]
    /\ calls' = Append(calls, [op |-> "assemble", h |-> call.J, via |-> "J"])
    /\ apc' = "ret"
    /\ UNCHANGED <<prob, A, call, row, result, newtonVars, facVars, ovVars, stVars>>

\* return PETSc.Mat.Structure.SAME_NONZERO_PATTERN
JacReturn ==
    /\ apc = "ret"
    /\ result' = [kind |-> "status", val |-> SAME_NONZERO_PATTERN]
    /\ apc' = "done"
    /\ UNCHANGED <<prob, A, call, row, mats, calls, newtonVars, facVars, ovVars, stVars>>

AsmNext ==
    \/ CallGetSysMat \/ CallMult \/ CallEvalF \/ CallEvalFFully \/ CallEvalFSemi
    \/ CallFormFunction
    \/ CallFormJacobian \/ JacZero \/ JacRow \/ JacAssembleP \/ JacAssembleJ \/ JacReturn

-----------------------------------------------------------------------------
(***************************************************************************)
(* The solve methods of the petsc_fisher_* classes and their counters.     *)
(* Calls on one instance are made one after the other.  The backend solve  *)
(* (ksp.solve, snes.solve) either returns, reporting an iteration number,  *)
(* or raises; an exception is not caught by the solve method.              *)
(***************************************************************************)
Classes == {"multiimplicit", "fullyimplicit", "semiimplicit"}

\* the solve methods an instance of class c has, with the backend each uses
\* and the provider it registers
Methods(c) ==
    {[name |-> "solve_system_1", backend |-> "ksp", provider |-> "none"],
     [name |-> "solve_system_2", backend |-> "snes", provider |-> "Fisher_reaction"]}
    \cup (IF c = "fullyimplicit"
          THEN {[name |-> "solve_system", backend |-> "snes", provider |-> "Fisher_full"]}
          ELSE {})
    \cup (IF c = "semiimplicit"
          THEN {[name |-> "solve_system", backend |-> "ksp", provider |-> "none"]}
          ELSE {})

NoSolve   == [name |-> "none", backend |-> "none", provider |-> "none", factor |-> Zero]
NoBackend == [kind |-> "none", its |-> 0]
NoReg     == [provider |-> "none", factor |-> Zero]

\* the state __init__ leaves: counters at 0, nothing registered
FacInit ==
    /\ cls \in Classes
    /\ ksp_itercount = 0
    /\ ksp_ncalls = 0
    /\ snes_itercount = 0
    /\ snes_ncalls = 0
    /\ ksp_op = Zero
    /\ snes_reg = NoReg
    /\ fpc = "idle"
    /\ fcall = NoSolve
    /\ backend = NoBackend
    /\ fout = "none"
    /\ started = 0
    /\ completed = <<>>

\* entry of a solve method up to the backend solve: me = dtype_u(u0), then
\* ksp.setOperators(get_sys_mat(factor)) or snes.setFunction/setJacobian
SolveEnter ==
    /\ fpc = "idle"
    /\ started < MaxCalls
    /\ \E m \in Methods(cls), f \in FactorVals :
          /\ fcall' = [name |-> m.name, backend |-> m.backend, provider |-> m.provider,
                       factor |-> f]
          /\ IF m.backend = "ksp"
             THEN ksp_op' = f /\ snes_reg' = snes_reg
             ELSE snes_reg' = [provider |-> m.provider, factor |-> f] /\ ksp_op' = ksp_op
    /\ started' = started + 1
    /\ backend' = NoBackend
    /\ fout' = "none"
    /\ fpc' = "solve"
    /\ UNCHANGED <<cls, ksp_itercount, ksp_ncalls, snes_itercount, snes_ncalls, completed,
                   newtonVars, asmVars, ovVars, stVars>>

\* self.ksp.solve(rhs, me) / self.snes.solve(rhs, me) returns
BackendReturns ==
    /\ fpc = "solve"
    /\ \E its \in 0..MaxIts :
          /\ backend' = [kind |-> "ok", its |-> its]
          /\ completed' = Append(completed, [backend |-> fcall.backend, its |-> its])
    /\ fpc' = "count"
    /\ UNCHANGED <<cls, ksp_itercount, ksp_ncalls, snes_itercount, snes_ncalls, ksp_op,
                   snes_reg, fcall, fout, started, newtonVars, asmVars, ovVars, stVars>>

\* the backend solve raises: the exception leaves the solve method at once
BackendRaises ==
    /\ fpc = "solve"
    /\ backend' = [kind |-> "error", its |-> 0]
    /\ fout' = "raise"
    /\ fpc' = "idle"
    /\ UNCHANGED <<cls, ksp_itercount, ksp_ncalls, snes_itercount, snes_ncalls, ksp_op,
                   snes_reg, fcall, started, completed, newtonVars, asmVars, ovVars, stVars>>

\* a count that stores the last iteration number instead of adding it
SolveCount_Overwrite ==
    /\ fpc = "count"
    /\ IF fcall.backend = "ksp"
       THEN /\ ksp_itercount' = backend.its
            /\ ksp_ncalls' = ksp_ncalls + 1
            /\ UNCHANGED <<snes_itercount, snes_ncalls>>
       ELSE /\ snes_itercount' = backend.its
            /\ snes_ncalls' = snes_ncalls + 1
            /\ UNCHANGED <<ksp_itercount, ksp_ncalls>>
    /\ fout' = "return"
    /\ fpc' = "idle"
    /\ UNCHANGED <<cls, ksp_op, snes_reg, fcall, backend, started, completed,
                   newtonVars, asmVars, ovVars, stVars>>

\* itercount += getIterationNumber(); ncalls += 1; return me
SolveCount ==
    /\ fpc = "count"
    /\ IF fcall.backend = "ksp"
       THEN /\ ksp_itercount' = ksp_itercount + backend.its
            /\ ksp_ncalls' = ksp_ncalls + 1
            /\ UNCHANGED <<snes_itercount, snes_ncalls>>
       ELSE /\ snes_itercount' = snes_itercount + backend.its
            /\ snes_ncalls' = snes_ncalls + 1
            /\ UNCHANGED <<ksp_itercount, ksp_ncalls>>
    /\ fout' = "return"
    /\ fpc' = "idle"
    /\ UNCHANGED <<cls, ksp_op, snes_reg, fcall, backend, started, completed,
                   newtonVars, asmVars, ovVars, stVars>>

FacNext == SolveEnter \/ BackendReturns \/ BackendRaises \/ SolveCount

-----------------------------------------------------------------------------
(***************************************************************************)
(* Solve calls made by two threads on one problem instance.  The instance  *)
(* has one ksp and one snes; a solve method sets the operator or registers *)
(* its residual and Jacobian provider on them, solves, and adds to the     *)
(* counters.  A thread switch may fall between any two statements, and     *)
(* inside `x += e` between the load of x and the store.  The backend solve *)
(* itself is one step: it runs with what is registered when it starts.     *)
(***************************************************************************)
Threads == {1, 2}

MaxOvCalls == 2   \* solve calls started by the threads together

\* the iteration numbers a backend solve reports in this part
OvIts == {1, MaxIts}

NoThread == [pc |-> "idle", name |-> "none", backend |-> "none", provider |-> "none",
             factor |-> Zero, ran |-> <<>>, tmp |-> 0]

\* what the call of thread t registers: target = Fisher_*(self.init, self, factor, ...)
Target(t) == [provider |-> th[t].provider, factor |-> th[t].factor]

\* what a backend solve of thread t should run with
Own(t) ==
    IF th[t].backend = "ksp" THEN <<th[t].factor>> ELSE <<Target(t), Target(t)>>

OvInit ==
    /\ cls \in Classes
    /\ ksp_itercount = 0
    /\ ksp_ncalls = 0
    /\ snes_itercount = 0
    /\ snes_ncalls = 0
    /\ ksp_op = Zero
    /\ snes_reg = NoReg
    /\ snes_jac = NoReg
    /\ last_its = [b \in {"ksp", "snes"} |-> 0]
    /\ th = [t \in Threads |-> NoThread]
    /\ overlap = FALSE
    /\ started = 0
    /\ completed = <<>>
    /\ fpc = "rest"
    /\ fcall = NoSolve
    /\ backend = NoBackend
    /\ fout = "none"

\* thread t enters a solve method: me = self.dtype_u(u0); target = ...
OvEnter(t) ==
    /\ th[t].pc = "idle"
    /\ started < MaxOvCalls
    /\ \E m \in Methods(cls), f \in FactorVals :
          th' = [th EXCEPT ![t] = [pc |-> IF m.backend = "ksp" THEN "setop" ELSE "setfun",
                                   name |-> m.name, backend |-> m.backend,
                                   provider |-> m.provider, factor |-> f,
                                   ran |-> <<>>, tmp |-> 0]]
    /\ started' = started + 1
    /\ overlap' = (overlap \/ \E o \in Threads \ {t} : th[o].pc # "idle")
    /\ UNCHANGED <<cls, ksp_itercount, ksp_ncalls, snes_itercount, snes_ncalls, ksp_op,
                   snes_reg, snes_jac, last_its, completed, fpc, fcall, backend, fout,
                   newtonVars, asmVars, stVars>>

\* self.ksp.setOperators(self.get_sys_mat(factor))
OvSetOperators(t) ==
    /\ th[t].pc = "setop"
    /\ ksp_op' = th[t].factor
    /\ th' = [th EXCEPT ![t].pc = "solve"]
    /\ UNCHANGED <<cls, ksp_itercount, ksp_ncalls, snes_itercount, snes_ncalls,
                   snes_reg, snes_jac, last_its, overlap, started, completed,
                   fpc, fcall, backend, fout, newtonVars, asmVars, stVars>>

\* self.snes.setFunction(target.formFunction, F)
OvSetFunction(t) ==
    /\ th[t].pc = "setfun"
    /\ snes_reg' = Target(t)
    /\ th' = [th EXCEPT ![t].pc = "setjac"]
    /\ UNCHANGED <<cls, ksp_itercount, ksp_ncalls, snes_itercount, snes_ncalls, ksp_op,
                   snes_jac, last_its, overlap, started, completed,
                   fpc, fcall, backend, fout, newtonVars, asmVars, stVars>>

\* a setJacobian that keeps a provider already registered
OvSetJacobian_Keep(t) ==
    /\ th[t].pc = "setjac"
    /\ snes_jac' = IF snes_jac = NoReg THEN Target(t) ELSE snes_jac
    /\ th' = [th EXCEPT ![t].pc = "solve"]
    /\ UNCHANGED <<cls, ksp_itercount, ksp_ncalls, snes_itercount, snes_ncalls, ksp_op,
                   snes_reg, last_its, overlap, started, completed,
                   fpc, fcall, backend, fout, newtonVars, asmVars, stVars>>

\* self.snes.setJacobian(target.formJacobian, J)
OvSetJacobian(t) ==
    /\ th[t].pc = "setjac"
    /\ snes_jac' = Target(t)
    /\ th' = [th EXCEPT ![t].pc = "solve"]
    /\ UNCHANGED <<cls, ksp_itercount, ksp_ncalls, snes_itercount, snes_ncalls, ksp_op,
                   snes_reg, last_its, overlap, started, completed,
                   fpc, fcall, backend, fout, newtonVars, asmVars, stVars>>

\* self.ksp.solve(rhs, me) / self.snes.solve(rhs, me): the solve runs with the
\* operator or the providers the backend holds, and the backend then holds
\* the iteration number of this solve
OvSolve(t) ==
    /\ th[t].pc = "solve"
    /\ \E its \in OvIts :
          /\ last_its' = [last_its EXCEPT ![th[t].backend] = its]
          /\ completed' = Append(completed, [backend |-> th[t].backend, its |-> its])
    /\ th' = [th EXCEPT ![t].pc = "load_iter",
                        ![t].ran = IF th[t].backend = "ksp" THEN <<ksp_op>>
                                   ELSE <<snes_reg, snes_jac>>]
    /\ UNCHANGED <<cls, ksp_itercount, ksp_ncalls, snes_itercount, snes_ncalls, ksp_op,
                   snes_reg, snes_jac, overlap, started,
                   fpc, fcall, backend, fout, newtonVars, asmVars, stVars>>

\* self.X_itercount += self.X.getIterationNumber(): the load of the counter
OvLoadIter(t) ==
    /\ th[t].pc = "load_iter"
    /\ th' = [th EXCEPT ![t].pc = "store_iter",
                        ![t].tmp = IF th[t].backend = "ksp" THEN ksp_itercount
                                   ELSE snes_itercount]
    /\ UNCHANGED <<cls, ksp_itercount, ksp_ncalls, snes_itercount, snes_ncalls, ksp_op,
                   snes_reg, snes_jac, last_its, overlap, started, completed,
                   fpc, fcall, backend, fout, newtonVars, asmVars, stVars>>

\* ... the call of getIterationNumber(), the addition and the store
OvStoreIter(t) ==
    /\ th[t].pc = "store_iter"
    /\ IF th[t].backend = "ksp"
       THEN /\ ksp_itercount' = th[t].tmp + last_its["ksp"]
            /\ UNCHANGED snes_itercount
       ELSE /\ snes_itercount' = th[t].tmp + last_its["snes"]
            /\ UNCHANGED ksp_itercount
    /\ th' = [th EXCEPT ![t].pc = "load_calls"]
    /\ UNCHANGED <<cls, ksp_ncalls, snes_ncalls, ksp_op,
                   snes_reg, snes_jac, last_its, overlap, started, completed,
                   fpc, fcall, backend, fout, newtonVars, asmVars, stVars>>

\* self.X_ncalls += 1: the load of the counter
OvLoadCalls(t) ==
    /\ th[t].pc = "load_calls"
    /\ th' = [th EXCEPT ![t].pc = "store_calls",
                        ![t].tmp = IF th[t].backend = "ksp" THEN ksp_ncalls ELSE snes_ncalls]
    /\ UNCHANGED <<cls, ksp_itercount, ksp_ncalls, snes_itercount, snes_ncalls, ksp_op,
                   snes_reg, snes_jac, last_its, overlap, started, completed,
                   fpc, fcall, backend, fout, newtonVars, asmVars, stVars>>

\* ... the addition and the store; return me
OvStoreCalls(t) ==
    /\ th[t].pc = "store_calls"
    /\ IF th[t].backend = "ksp"
       THEN /\ ksp_ncalls' = th[t].tmp + 1
            /\ UNCHANGED snes_ncalls
       ELSE /\ snes_ncalls' = th[t].tmp + 1
            /\ UNCHANGED ksp_ncalls
    /\ th' = [th EXCEPT ![t].pc = "idle", ![t].tmp = 0]
    /\ UNCHANGED <<cls, ksp_itercount, snes_itercount, ksp_op,
                   snes_reg, snes_jac, last_its, overlap, started, completed,
                   fpc, fcall, backend, fout, newtonVars, asmVars, stVars>>

OvNext ==
    \E t \in Threads :
        \/ OvEnter(t) \/ OvSetOperators(t) \/ OvSetFunction(t) \/ OvSetJacobian(t)
        \/ OvSolve(t) \/ OvLoadIter(t) \/ OvStoreIter(t) \/ OvLoadCalls(t)
        \/ OvStoreCalls(t)

-----------------------------------------------------------------------------
(***************************************************************************)
(* get_finite_difference_stencil(derivative, order, stencil_type, steps).  *)
(* The function lives in pySDC/helpers/problem_helper.py; it is modelled   *)
(* from its description: the offsets of a family (center: symmetric around *)
(* 0, an odd number of them; forward, backward, upwind: one-sided,         *)
(* derivative + order of them), or the offsets given as steps; the weights *)
(* are the solution of the moment (Vandermonde) system on those offsets.   *)
(* The reference values are those of tests/test_helpers.py.                *)
(***************************************************************************)
Derivatives  == {1, 2}
Orders       == 1..8
StencilTypes == {"center", "forward", "backward", "upwind"}

\* the integers a..b in ascending order
Range(a, b) == [k \in 1..(b - a + 1) |-> a + k - 1]

\* offsets a caller hands over as steps
StepsVals ==
    {Range(-1, 0), Range(-2, 0), Range(-2, 1), Range(-3, 1), Range(-4, 1),
     Range(-1, 1), Range(-2, 2), Range(-3, 3), Range(-4, 4), <<0, -1, -2, -3>>}

NoRequest == [derivative |-> 0, order |-> 0, stencil_type |-> "none", steps |-> <<>>]
NoStencil == [kind |-> "none", coeff |-> <<>>, steps |-> <<>>]

\* the number of offsets of a family
NumSteps(derivative, order, stencil_type) ==
    IF stencil_type = "center"
    THEN LET c == derivative + order - 1 IN IF c % 2 = 0 THEN c + 1 ELSE c
    ELSE derivative + order

\* the requests that have no stencil: an odd order for a centered stencil
Unsupported(derivative, order, stencil_type) ==
    stencil_type = "center" /\ order % 2 = 1

\* the offsets of a family
FamilySteps(derivative, order, stencil_type) ==
    LET nn == NumSteps(derivative, order, stencil_type)
    IN  CASE stencil_type = "center"   -> Range(-(nn \div 2), nn \div 2)
          [] stencil_type = "forward"  -> Range(0, nn - 1)
          [] stencil_type = "backward" -> [k \in 1..nn |-> -(k - 1)]
          [] stencil_type = "upwind"   -> Range(-(nn - 1), 0)

RECURSIVE Factorial(_)
Factorial(k) == IF k <= 0 THEN 1 ELSE k * Factorial(k - 1)

RECURSIVE ElemSym(_, _)
\* the elementary symmetric polynomial of degree k of the integers in S
ElemSym(S, k) ==
    IF k = 0 THEN 1
    ELSE IF k < 0 \/ S = {} THEN 0
    ELSE LET x == CHOOSE y \in S : TRUE
         IN  ElemSym(S \ {x}, k) + x * ElemSym(S \ {x}, k - 1)

RECURSIVE Product(_, _)
\* the product of (x - y) over the y in S
Product(x, S) ==
    IF S = {} THEN 1
    ELSE LET y == CHOOSE z \in S : TRUE IN (x - y) * Product(x, S \ {y})

\* the weight of offset steps[j] in the solution of the moment system
\*   sum_j w_j * steps[j]^k / k! = (1 if k = derivative else 0),  k = 0..n-1:
\* derivative! times the coefficient of x^derivative in the Lagrange basis
\* polynomial of steps[j]
Weight(steps, j, derivative) ==
    LET others == {steps[m] : m \in DOMAIN steps \ {j}}
        k      == Len(steps) - 1 - derivative
        sign   == IF k % 2 = 0 THEN 1 ELSE -1
    IN  Frac(Factorial(derivative) * sign * ElemSym(others, k), Product(steps[j], others))

StencilInit ==
    /\ sreq = NoRequest
    /\ spc = "idle"
    /\ ssteps = <<>>
    /\ scoeff = <<>>
    /\ sout = NoStencil

\* a call with order and stencil_type, or with steps
StencilCall ==
    /\ spc \in {"idle", "done"}
    /\ \/ \E d \in Derivatives, o \in Orders, ty \in StencilTypes :
             sreq' = [derivative |-> d, order |-> o, stencil_type |-> ty, steps |-> <<>>]
       \/ \E d \in Derivatives, st \in StepsVals :
             sreq' = [derivative |-> d, order |-> 0, stencil_type |-> "none", steps |-> st]
    /\ spc' = "steps"
    /\ ssteps' = <<>>
    /\ scoeff' = <<>>
    /\ sout' = NoStencil
    /\ UNCHANGED <<newtonVars, asmVars, facVars, ovVars>>

\* the offsets: those given, those of the family, or the error
StencilSteps ==
    /\ spc = "steps"
    /\ IF sreq.steps # <<>>
       THEN ssteps' = sreq.steps /\ spc' = "solve" /\ sout' = sout
       ELSE IF Unsupported(sreq.derivative, sreq.order, sreq.stencil_type)
       THEN /\ sout' = [kind |-> "UnsupportedStencilError", coeff |-> <<>>, steps |-> <<>>]
            /\ spc' = "done" /\ ssteps' = ssteps
       ELSE /\ ssteps' = FamilySteps(sreq.derivative, sreq.order, sreq.stencil_type)
            /\ spc' = "solve" /\ sout' = sout
    /\ UNCHANGED <<sreq, scoeff, newtonVars, asmVars, facVars, ovVars>>

\* the solution of the moment system, one weight at a time
StencilSolve ==
    /\ spc = "solve"
    /\ Len(scoeff) < Len(ssteps)
    /\ scoeff' = Append(scoeff, Weight(ssteps, Len(scoeff) + 1, sreq.derivative))
    /\ UNCHANGED <<sreq, spc, ssteps, sout, newtonVars, asmVars, facVars, ovVars>>

\* return coeff, steps
StencilReturn ==
    /\ spc = "solve"
    /\ Len(scoeff) = Len(ssteps)
    /\ sout' = [kind |-> "return", coeff |-> scoeff, steps |-> ssteps]
    /\ spc' = "done"
    /\ UNCHANGED <<sreq, ssteps, scoeff, newtonVars, asmVars, facVars, ovVars>>

StencilNext == StencilCall \/ StencilSteps \/ StencilSolve \/ StencilReturn

\* the hard-coded values of fd_stencil_single: stencil, zero_pos, coeff
Reference(derivative, order, stencil_type) ==
    CASE derivative = 1 /\ stencil_type = "center" /\ order = 2 ->
           [stencil |-> <<RInt(-1), Zero, Uno>>, zero_pos |-> 2, coeff |-> Frac(1, 2)]
      [] derivative = 1 /\ stencil_type = "center" /\ order = 4 ->
           [stencil |-> <<Uno, RInt(-8), Zero, RInt(8), RInt(-1)>>, zero_pos |-> 3,
            coeff |-> Frac(1, 12)]
      [] derivative = 1 /\ stencil_type = "center" /\ order = 6 ->
           [stencil |-> <<RInt(-1), RInt(9), RInt(-45), Zero, RInt(45), RInt(-9), Uno>>,
            zero_pos |-> 4, coeff |-> Frac(1, 60)]
      [] derivative = 1 /\ stencil_type = "upwind" /\ order = 1 ->
           [stencil |-> <<RInt(-1), Uno>>, zero_pos |-> 2, coeff |-> Uno]
      [] derivative = 1 /\ stencil_type = "upwind" /\ order = 2 ->
           [stencil |-> <<Uno, RInt(-4), RInt(3)>>, zero_pos |-> 3, coeff |-> Frac(1, 2)]
      [] derivative = 1 /\ stencil_type = "upwind" /\ order = 3 ->
           [stencil |-> <<Uno, RInt(-6), RInt(3), RInt(2)>>, zero_pos |-> 3,
            coeff |-> Frac(1, 6)]
      [] derivative = 1 /\ stencil_type = "upwind" /\ order = 4 ->
           [stencil |-> <<RInt(-5), RInt(30), RInt(-90), RInt(50), RInt(15)>>,
            zero_pos |-> 4, coeff |-> Frac(1, 60)]
      [] derivative = 1 /\ stencil_type = "upwind" /\ order = 5 ->
           [stencil |-> <<RInt(3), RInt(-20), RInt(60), RInt(-120), RInt(65), RInt(12)>>,
            zero_pos |-> 5, coeff |-> Frac(1, 60)]
      [] derivative = 2 /\ stencil_type = "center" /\ order = 2 ->
           [stencil |-> <<Uno, RInt(-2), Uno>>, zero_pos |-> 2, coeff |-> Uno]
      [] derivative = 2 /\ stencil_type = "center" /\ order = 4 ->
           [stencil |-> <<Frac(-1, 12), Frac(4, 3), Frac(-5, 2), Frac(4, 3), Frac(-1, 12)>>,
            zero_pos |-> 3, coeff |-> Uno]
      [] derivative = 2 /\ stencil_type = "center" /\ order = 6 ->
           [stencil |-> <<Frac(1, 90), Frac(-3, 20), Frac(3, 2), Frac(-49, 18), Frac(3, 2),
                          Frac(-3, 20), Frac(1, 90)>>,
            zero_pos |-> 4, coeff |-> Uno]
      [] derivative = 2 /\ stencil_type = "center" /\ order = 8 ->
           [stencil |-> <<Frac(-1, 560), Frac(8, 315), Frac(-1, 5), Frac(8, 5), Frac(-205, 72),
                          Frac(8, 5), Frac(-1, 5), Frac(8, 315), Frac(-1, 560)>>,
            zero_pos |-> 5, coeff |-> Uno]

\* the requests fd_stencil_single has reference values for
InReference(derivative, order, stencil_type) ==
    \/ derivative = 1 /\ stencil_type = "upwind" /\ order \in 1..5
    \/ derivative = 1 /\ stencil_type = "center" /\ order \in {2, 4, 6}
    \/ derivative = 2 /\ stencil_type = "center" /\ order \in {2, 4, 6, 8}

\* coeff_reference = np.array(stencil) * coeff
CoeffReference(ref) == [k \in DOMAIN ref.stencil |-> RMul(ref.stencil[k], ref.coeff)]

\* steps_reference = np.append(np.arange(-zero_pos + 1, 1), np.arange(1, zero_pos))[:len]
StepsReference(ref) ==
    SubSeq(Range(-ref.zero_pos + 1, 0) \o Range(1, ref.zero_pos - 1), 1, Len(ref.stencil))

\* values[np.argsort(steps)]: the values in ascending order of their offsets
SortedBy(steps, values) ==
    [k \in DOMAIN steps |->
        values[CHOOSE j \in DOMAIN steps :
                  Cardinality({m \in DOMAIN steps : steps[m] < steps[j]}) = k - 1]]

\* the two stencils test_fd_stencils compares with the Wikipedia values, and
\* the weights expected in the order returned
ForwardExpected  == <<Frac(-11, 6), RInt(3), Frac(-3, 2), Frac(1, 3)>>
BackwardExpected == <<RInt(2), RInt(-5), RInt(4), RInt(-1)>>

-----------------------------------------------------------------------------
(***************************************************************************)
(* Specifications: one per part; the other parts rest.                     *)
(***************************************************************************)
StencilRest ==
    /\ sreq = NoRequest
    /\ spc = "rest"
    /\ ssteps = <<>>
    /\ scoeff = <<>>
    /\ sout = NoStencil

OvRest ==
    /\ th = [t \in Threads |-> NoThread]
    /\ snes_jac = NoReg
    /\ last_its = [b \in {"ksp", "snes"} |-> 0]
    /\ overlap = FALSE

NewtonRest ==
    /\ params = [newton_maxiter |-> 0, newton_tol |-> Fin(0), stop_at_nan |-> TRUE]
    /\ args = [rhs |-> Fin(0), dt |-> Fin(0), u0 |-> Fin(0)]
    /\ npc = "rest"
    /\ u = Fin(0)
    /\ n = 0
    /\ res = Fin(0)
    /\ nstate = "rest"
    /\ warned = FALSE
    /\ outcome = NoOutcome

AsmRest ==
    /\ prob = [nvars |-> 0, interval |-> <<Zero, Zero>>, lambda0 |-> Zero, nu |-> 0]
    /\ A = CreateMatrix
    /\ call = NoCall
    /\ apc = "rest"
    /\ row = 0
    /\ mats = [h \in Handles |-> CreateMatrix]
    /\ calls = <<>>
    /\ result = NoResult

FacRest ==
    /\ cls = "none"
    /\ ksp_itercount = 0
    /\ ksp_ncalls = 0
    /\ snes_itercount = 0
    /\ snes_ncalls = 0
    /\ ksp_op = Zero
    /\ snes_reg = NoReg
    /\ fpc = "rest"
    /\ fcall = NoSolve
    /\ backend = NoBackend
    /\ fout = "none"
    /\ started = 0
    /\ completed = <<>>

InitNewton == NewtonInit /\ AsmRest /\ FacRest /\ OvRest /\ StencilRest
NextNewton == NewtonNext
SpecNewton == InitNewton /\ [][NextNewton]_vars

\* a call, once made, runs on: Python executes solve_system statement after
\* statement until it returns or raises.  This is weak fairness of the three
\* steps of a call, WF_npc(NewtonTest), WF_npc(NewtonStep) and
\* WF_npc(NewtonFinish), written out with each step's guard in the place of
\* ENABLED (each step is possible exactly at its position, and changes npc).
SpecNewtonLive ==
    /\ SpecNewton
    /\ ([]<>(npc # "loop") \/ []<><<NewtonTest>>_npc)
    /\ ([]<>(npc # "update") \/ []<><<NewtonStep>>_npc)
    /\ ([]<>(npc # "after") \/ []<><<NewtonFinish>>_npc)

InitAssembly == AsmInit /\ NewtonRest /\ FacRest /\ OvRest /\ StencilRest
NextAssembly == AsmNext
SpecAssembly == InitAssembly /\ [][NextAssembly]_vars

InitFacade == FacInit /\ NewtonRest /\ AsmRest /\ OvRest /\ StencilRest
NextFacade == FacNext
SpecFacade == InitFacade /\ [][NextFacade]_vars

InitOverlap == OvInit /\ NewtonRest /\ AsmRest /\ StencilRest
NextOverlap == OvNext
SpecOverlap == InitOverlap /\ [][NextOverlap]_vars

InitStencil == StencilInit /\ NewtonRest /\ AsmRest /\ FacRest /\ OvRest
NextStencil == StencilNext
SpecStencil == InitStencil /\ [][NextStencil]_vars

-----------------------------------------------------------------------------
(***************************************************************************)
(* Properties of nonlinear_ODE_1.solve_system (under SpecNewton).          *)
(***************************************************************************)
\* the residual norm of the iterate u as the loop would compute it
ResidualNormOf(uu) == NormInf(Residual(uu, args.dt, args.rhs))

Raised(why) == outcome.kind = "raise" /\ outcome.why = why
Returned    == outcome.kind = "return"

C2_WitnessRaise == npc = "done" /\ IsNaN(res) /\ params.stop_at_nan /\ Raised("nan")

\* C3 -- exhausted outcome, as claimed: the call ends by the "did not
\* converge" ProblemError exactly when n has reached newton_maxiter and the
\* iterate held then does not satisfy norm(g) < newton_tol, and the error
\* reports the residual norm of that iterate.
C3_ExhaustedAsClaimed ==
    npc = "done" =>
       /\ Raised("maxiter") <=>
             (n = params.newton_maxiter /\ ~FLess(ResidualNormOf(u), params.newton_tol))
       /\ Raised("maxiter") => outcome.res = ResidualNormOf(u)

\* C3, first half alone: exhausted only without convergence of the last iterate
C3_ExhaustedOnlyUnconverged ==
    (npc = "done" /\ Raised("maxiter")) => ~FLess(ResidualNormOf(u), params.newton_tol)

\* C3, second half alone: the reported residual is that of the last iterate
C3_ReportsLastResidual ==
    (npc = "done" /\ Raised("maxiter")) => outcome.res = ResidualNormOf(u)

\* what the code does instead: it raises whenever n == newton_maxiter, and
\* reports the residual of the iterate before the last update (99 if none)
C3_WhatCodeDoes ==
    npc = "done" =>
       /\ Raised("maxiter") <=> (n = params.newton_maxiter)
       /\ Raised("maxiter") => outcome.res = res /\ outcome.n = n
       /\ (Raised("maxiter") /\ n = 0) => outcome.res = Fin(Res0 * Scale)

Terminal == {"converged", "diverged-nan", "exhausted"}

\* the three terminal conditions, read off the locals of solve_system
EndConverged == FLess(res, params.newton_tol)
EndNaN       == IsNaN(res)
EndExhausted == n = params.newton_maxiter

\* C4 -- a finished call is in exactly one of converged, diverged-nan,
\* exhausted; it returns a value exactly when it converged (and then the
\* returned u has norm_inf(u - dt*sqrt(1-u) - rhs) < newton_tol) or when it
\* met nan with stop_at_nan off; otherwise it raises ProblemError and hands
\* back nothing.
C4_Outcomes ==
    npc = "done" =>
       /\ nstate \in Terminal
       /\ (nstate = "converged") <=> EndConverged
       /\ (nstate = "diverged-nan") <=> EndNaN
       /\ (nstate = "exhausted") <=> EndExhausted
       /\ Cardinality({c \in {1, 2, 3} : \/ c = 1 /\ EndConverged
                                         \/ c = 2 /\ EndNaN
                                         \/ c = 3 /\ EndExhausted}) = 1
       /\ outcome.kind \in {"return", "raise"}
       /\ Returned <=> (nstate = "converged"
                          \/ (nstate = "diverged-nan" /\ ~params.stop_at_nan))
       /\ (Returned /\ nstate = "converged") =>
             /\ outcome.val = u
             /\ FLess(NormInf(Residual(outcome.val, args.dt, args.rhs)), params.newton_tol)
       /\ ~Returned => (outcome.kind = "raise" /\ outcome.why \in {"nan", "maxiter"})

\* C4 witness: a call that converged after at least two updates and returned
C4_Witness == npc = "done" /\ nstate = "converged" /\ n >= 2 /\ Returned

\* dg and the update as the claim writes them
ClaimedDg(uu) == FAdd(One, FDiv(args.dt, FMul(Two, FSqrt(FSub(One, uu)))))
ClaimedUpdate(uu) ==
    FSub(uu, FDiv(Residual(uu, args.dt, args.rhs), ClaimedDg(uu)))

\* a and b are the same value up to the rounding of 1.0 / dg * g against
\* g / dg, g the residual of magnitude gv
SameUpToRounding(a, b, gv) ==
    IF IsFin(a) /\ IsFin(b) THEN AbsI(a.v - b.v) <= 2 + AbsI(gv) \div Scale
    ELSE a = b

InCall == npc \in {"loop", "update", "after"}

\* C15 -- Newton loop ordering and termination.  In each iteration the
\* residual of the current iterate is tested (convergence, nan) before any
\* update is applied; each update is u <- u - g/dg with
\* dg = 1 + dt/(2*sqrt(1-u)) and increments the iteration count by exactly
\* one; the count never exceeds newton_maxiter; every call terminates, after
\* at most newton_maxiter updates; the caller's u0 and rhs are not modified.
C15_LoopOrderAndTermination ==
    /\ [](/\ n <= params.newton_maxiter
          /\ npc = "update" =>
                /\ n < params.newton_maxiter
                /\ res = ResidualNormOf(u)
                /\ ~IsNaN(res) /\ ~FLess(res, params.newton_tol)
          /\ npc = "done" => outcome.n = n /\ n <= params.newton_maxiter)
    /\ [][/\ (InCall /\ (u' # u \/ n' # n)) =>
                /\ npc = "update"
                /\ n' = n + 1
                /\ Derivative(u, args.dt) = ClaimedDg(u)
                /\ SameUpToRounding(u', ClaimedUpdate(u), Residual(u, args.dt, args.rhs).v)
          /\ InCall => args' = args]_vars
    /\ (npc = "loop") ~> (npc = "done")

\* a call that made two updates with dt # 0 and then returned
C15_Witness ==
    /\ npc = "done" /\ outcome.kind = "return" /\ n = 2
    /\ args.dt # Fin(0) /\ u # args.u0

-----------------------------------------------------------------------------
(***************************************************************************)
(* Properties of the assembled matrices, residuals and Jacobians (under    *)
(* SpecAssembly).                                                          *)
(***************************************************************************)
Rows     == 0..(prob.nvars - 1)
Interior == 1..(prob.nvars - 2)
Done(op) == apc = "done" /\ call.op = op
DoneBy(op, provider) == Done(op) /\ call.provider = provider

I(i, j) == IF i = j THEN Uno ELSE Zero

\* row i of M holds the coefficient 1 on the diagonal and no other entry
IdentityRow(M, i) == RowCols(M, i) = {i} /\ M.ent[<<i, i>>] = Uno

BoundaryPinned(M) == IdentityRow(M, 0) /\ IdentityRow(M, prob.nvars - 1)

Scenario5 ==
    /\ prob.nvars = 5 /\ prob.interval = <<RInt(0), RInt(1)>>
    /\ call.x = [i \in 0..4 |-> IF i \in {0, 4} THEN Zero ELSE Uno]

Vec5(a, b, c, d, e) == [i \in 0..4 |-> <<a, b, c, d, e>>[i + 1]]

\* C6 -- as claimed: on N=5 over [0,1] the matrix of __get_A applied to
\* [0,1,1,1,0] gives [0, -32, 0, -32, 0].
C6_ScenarioAsClaimed ==
    (Done("mult") /\ Scenario5) =>
       result.val = Vec5(Zero, RInt(-32), Zero, RInt(-32), Zero)

\* C6 -- amended: on N=5 over [0,1] (dx = 1/4) the matrix of __get_A applied
\* to [0,1,1,1,0] gives [0, -1/dx^2, 0, -1/dx^2, 0] = [0, -16, 0, -16, 0];
\* eval_f returns the same vector as its diffusion component.
C6_Scenario ==
    /\ (Done("mult") /\ Scenario5) =>
          /\ Dx(prob) = Frac(1, 4)
          /\ result.val = Vec5(Zero, RInt(-16), Zero, RInt(-16), Zero)
          /\ result.val = Vec5(Zero, RNeg(RDiv(Uno, Dx2(prob))), Zero,
                               RNeg(RDiv(Uno, Dx2(prob))), Zero)
    /\ (Done("eval_f") /\ Scenario5) =>
          result.val.comp1 = Vec5(Zero, RInt(-16), Zero, RInt(-16), Zero)

\* C6 witness: the scenario's product has been computed
C6_Witness == Done("mult") /\ Scenario5

\* x with k added to component j
Shift(x, j, k) == [x EXCEPT ![j] = RAdd(@, RInt(k))]

\* the five-point formula (-F(x+2) + 8 F(x+1) - 8 F(x-1) + F(x-2)) / 12 for
\* the derivative of F at x; it is exact for polynomials of degree <= 4,
\* which the residuals are in each x_j (nu <= 3)
D5(fm2, fm1, fp1, fp2) ==
    RDiv(RAdd(RSub(RMul(RInt(8), RSub(fp1, fm1)), fp2), fm2), RInt(12))

\* the derivative of residual i with respect to x_j at the call's x
FullDerivative(i, j) ==
    D5(FullResidualAt(prob, call.factor, Shift(call.x, j, -2), i),
       FullResidualAt(prob, call.factor, Shift(call.x, j, -1), i),
       FullResidualAt(prob, call.factor, Shift(call.x, j, 1), i),
       FullResidualAt(prob, call.factor, Shift(call.x, j, 2), i))

ReactionDerivative(i, j) ==
    D5(ReactionResidualAt(prob, call.factor, Shift(call.x, j, -2), i),
       ReactionResidualAt(prob, call.factor, Shift(call.x, j, -1), i),
       ReactionResidualAt(prob, call.factor, Shift(call.x, j, 1), i),
       ReactionResidualAt(prob, call.factor, Shift(call.x, j, 2), i))

Lambda2 == RMul(prob.lambda0, prob.lambda0)
InvDx2  == RDiv(Uno, RMul(Dx(prob), Dx(prob)))

\* the diagonal reaction factor 1 - (nu+1) * x_i^nu claimed for both Jacobians
ClaimedSlope(xi) == RSub(Uno, RMul(RInt(prob.nu + 1), RPow(xi, prob.nu)))

\* the Jacobian the call's provider assembles, at the call's factor and x,
\* into a fresh matrix
WholeJacobian == FormJacobianP(CreateMatrix, call.provider, prob, call.factor, call.x)

\* C7 -- Fisher_full: the residual at interior i is
\* x_i - factor*((x_{i+1} - 2 x_i + x_{i-1})/dx^2 + lambda0^2 x_i (1 - x_i^nu))
\* and x_i at i = 0, N-1; the Jacobian has at interior i the diagonal
\* 1 - factor*(-2/dx^2 + lambda0^2 (1 - (nu+1) x_i^nu)) and -factor/dx^2 at
\* columns i-1 and i+1 only; every entry (i, j) of the Jacobian assembled
\* at a point x is the derivative of residual i with respect to x_j there
\* (the matrix a formJacobian call leaves in P is that Jacobian).
C7_FullProvider ==
    /\ DoneBy("formFunction", "Fisher_full") =>
          \A i \in Rows :
             result.val[i] =
                IF i \in Interior
                THEN LET x == call.x
                         lap == RMul(RAdd(RSub(x[i + 1], RMul(RInt(2), x[i])), x[i - 1]),
                                     InvDx2)
                         rea == RMul(Lambda2, RMul(x[i], RSub(Uno, RPow(x[i], prob.nu))))
                     IN  RSub(x[i], RMul(call.factor, RAdd(lap, rea)))
                ELSE call.x[i]
    /\ DoneBy("formFunction", "Fisher_full") =>
          LET W == WholeJacobian
          IN  \A i \in Rows, j \in Rows :
                 Entry(W, i, j) = FullDerivative(i, j)
    /\ DoneBy("formJacobian", "Fisher_full") =>
          LET P == mats[call.P]
              f == call.factor
          IN  /\ \A i \in Interior :
                    /\ RowCols(P, i) = {i - 1, i, i + 1}
                    /\ Entry(P, i, i) =
                          RSub(Uno, RMul(f, RAdd(RMul(RInt(-2), InvDx2),
                                                 RMul(Lambda2, ClaimedSlope(call.x[i])))))
                    /\ Entry(P, i, i - 1) = RNeg(RMul(f, InvDx2))
                    /\ Entry(P, i, i + 1) = RNeg(RMul(f, InvDx2))
              /\ P.ent = WholeJacobian.ent

\* C7 witness: a finished Fisher_full Jacobian with interior rows, at a point
\* where the reaction term contributes (x_1 = 1/2, lambda0 = 2, nu = 2)
C7_Witness ==
    /\ DoneBy("formJacobian", "Fisher_full") /\ prob.nvars = 4
    /\ call.x[1] = Frac(1, 2) /\ prob.lambda0 = RInt(2) /\ prob.nu = 2

\* the point of the reaction-only example
Example8 ==
    /\ prob.nvars = 5 /\ prob.lambda0 = Uno /\ prob.nu = 2
    /\ call.factor = Frac(1, 10)
    /\ call.x = [i \in 0..4 |-> IF i \in {0, 4} THEN Zero ELSE Frac(1, 2)]

\* C8 -- Fisher_reaction: the residual at interior i is
\* x_i - factor*lambda0^2*x_i*(1 - x_i^nu) (and x_i at i = 0, N-1); the
\* Jacobian has no off-diagonal entry in any row and at interior i the
\* diagonal 1 - factor*lambda0^2*(1 - (nu+1) x_i^nu), the derivative of the
\* residual; at factor=0.1, lambda0=1, nu=2, x=[0,.5,.5,.5,0] every interior
\* diagonal entry is 0.975.
C8_ReactionProvider ==
    /\ DoneBy("formFunction", "Fisher_reaction") =>
          \A i \in Rows :
             result.val[i] =
                IF i \in Interior
                THEN LET x == call.x
                     IN  RSub(x[i], RMul(RMul(call.factor, Lambda2),
                                         RMul(x[i], RSub(Uno, RPow(x[i], prob.nu)))))
                ELSE call.x[i]
    /\ DoneBy("formFunction", "Fisher_reaction") =>
          LET W == WholeJacobian
          IN  \A i \in Rows, j \in Rows :
                 Entry(W, i, j) = ReactionDerivative(i, j)
    /\ DoneBy("formJacobian", "Fisher_reaction") =>
          LET P == mats[call.P]
              f == call.factor
          IN  /\ \A i \in Rows : RowCols(P, i) = {i}
              /\ \A i \in Interior :
                    Entry(P, i, i) =
                       RSub(Uno, RMul(RMul(f, Lambda2), ClaimedSlope(call.x[i])))
              /\ P.ent = WholeJacobian.ent
              /\ Example8 => \A i \in Interior : Entry(P, i, i) = Frac(975, 1000)

\* C8 witness: the reaction-only Jacobian of the example has been assembled
C8_Witness == DoneBy("formJacobian", "Fisher_reaction") /\ Example8

\* the positions in the call log of the calls of one kind
CallsOf(op) == {k \in 1..Len(calls) : calls[k].op = op}

\* the number of setValueStencil calls one formJacobian makes
EntriesOf(provider) ==
    IF provider = "Fisher_full"
    THEN 2 + 3 * (prob.nvars - 2)
    ELSE prob.nvars

\* C9 -- Jacobian assembly protocol of both providers: P is zeroed before
\* any entry is inserted; every entry is inserted (into P) before P is
\* finalized; P is finalized exactly once; J gets a finalize call of its own
\* if and only if J differs from P, and then J receives no entry (when J is
\* P the one matrix is filled and finalized once, as P); the call returns
\* SAME_NONZERO_PATTERN.
C9_JacobianProtocol ==
    call.op = "formJacobian" =>
       /\ \A k \in CallsOf("setValueStencil") :
             /\ calls[k].h = call.P
             /\ \E z \in CallsOf("zeroEntries") : z < k /\ calls[z].h = call.P
             /\ \A a \in CallsOf("assemble") : a > k
       /\ Cardinality({k \in CallsOf("assemble") : calls[k].via = "P"}) <= 1
       /\ Cardinality(CallsOf("zeroEntries")) <= 1
       /\ apc \in {"ret", "done"} =>
             /\ Cardinality(CallsOf("setValueStencil")) = EntriesOf(call.provider)
             /\ \A i \in Rows : i \in RowCols(mats[call.P], i)
             /\ Cardinality({k \in CallsOf("assemble") : calls[k].via = "P"}) = 1
             /\ Cardinality(CallsOf("zeroEntries")) = 1
             /\ (\E k \in CallsOf("assemble") : calls[k].via = "J") <=> (call.J # call.P)
             /\ Cardinality({k \in CallsOf("assemble") : calls[k].h = call.J}) = 1
             /\ call.J # call.P =>
                   /\ mats[call.J].ent = NoEntries
                   /\ mats[call.J].zeroed = 0
                   /\ mats[call.J].assembled = 1
       /\ apc = "done" => result = [kind |-> "status", val |-> SAME_NONZERO_PATTERN]
       /\ apc # "done" => result = NoResult

\* C9 witness: a finished formJacobian whose J is a separate matrix and
\* whose P held an earlier Jacobian
C9_Witness ==
    /\ Done("formJacobian") /\ call.J # call.P
    /\ mats[call.P].zeroed = 2 /\ mats[call.J].assembled = 1

\* C9, the usual case reached as well: J is P itself
C9_WitnessSame == Done("formJacobian") /\ call.J = call.P /\ mats[call.P].assembled = 1

-----------------------------------------------------------------------------
(***************************************************************************)
(* Properties of the solve methods and their counters (under SpecFacade).  *)
(***************************************************************************)
\* C10 -- as claimed: when the backend solve of a solve method fails and the
\* error reaches the caller, the call counter has been incremented for that
\* attempt too: between calls the two call counters add up to the number of
\* calls made, failed ones included.
C10_FailedAttemptCounted ==
    fpc = "idle" => ksp_ncalls + snes_ncalls = started

\* C10, the same at the moment the error reaches the caller
C10_CountedAtRaise ==
    [][(fpc = "solve" /\ fout' = "raise") =>
          ksp_ncalls' + snes_ncalls' = ksp_ncalls + snes_ncalls + 1]_vars

\* what the code does: a failed attempt leaves all four counters as they
\* were, and no counter ever decreases
C10_WhatCodeDoes ==
    [][/\ (fout' = "raise" /\ fpc = "solve") =>
             UNCHANGED <<ksp_itercount, ksp_ncalls, snes_itercount, snes_ncalls>>
       /\ ksp_ncalls' >= ksp_ncalls /\ snes_ncalls' >= snes_ncalls
       /\ ksp_itercount' >= ksp_itercount /\ snes_itercount' >= snes_itercount]_vars

RECURSIVE SumIts(_, _)
\* the sum of the iteration numbers reported by the solves of log on backend b
SumIts(log, b) ==
    IF log = <<>> THEN 0
    ELSE (IF Head(log).backend = b THEN Head(log).its ELSE 0) + SumIts(Tail(log), b)

\* the number of solves of log on backend b
NumSolves(log, b) == Cardinality({k \in DOMAIN log : log[k].backend = b})

\* the solves already counted: all that returned, except the one whose count
\* statements are still to run
Counted == IF fpc = "count" THEN SubSeq(completed, 1, Len(completed) - 1) ELSE completed

\* C11 -- accumulate-only counters.  From 0 at construction, after any
\* sequence of solve calls made one after the other, ksp_ncalls is the number
\* of completed linear solves and ksp_itercount the sum of the iteration
\* numbers the linear backend reported for them, snes_ncalls and
\* snes_itercount likewise for the nonlinear solves; no counter ever decreases,
\* a linear solve leaves the nonlinear counters unchanged and a nonlinear solve
\* leaves the linear counters unchanged.
C11_AccumulateOnly ==
    /\ [](/\ ksp_ncalls = NumSolves(Counted, "ksp")
          /\ ksp_itercount = SumIts(Counted, "ksp")
          /\ snes_ncalls = NumSolves(Counted, "snes")
          /\ snes_itercount = SumIts(Counted, "snes"))
    /\ [][/\ ksp_ncalls' >= ksp_ncalls /\ ksp_itercount' >= ksp_itercount
          /\ snes_ncalls' >= snes_ncalls /\ snes_itercount' >= snes_itercount
          /\ (fcall'.backend = "ksp" => UNCHANGED <<snes_ncalls, snes_itercount>>)
          /\ (fcall'.backend = "snes" => UNCHANGED <<ksp_ncalls, ksp_itercount>>)]_vars

\* three calls returned, two linear (reporting 1 and 2 iterations) and one nonlinear
C11_Witness ==
    /\ fpc = "idle" /\ fout = "return"
    /\ ksp_ncalls = 2 /\ ksp_itercount = 3 /\ snes_ncalls = 1
    /\ Len(completed) = 3

-----------------------------------------------------------------------------
(***************************************************************************)
(* Properties of eval_f (under SpecAssembly).                              *)
(***************************************************************************)
\* the right-hand side at interior point i as the claim writes it, the
\* diffusion part once as row i of A times u and once from the stencil
ClaimedRhs(i) ==
    RAdd(MatMult(A, call.x)[i], Reaction(prob, call.x[i]))

ClaimedRhsStencil(i) ==
    RAdd(RDiv(RAdd(RSub(call.x[i - 1], RMul(RInt(2), call.x[i])), call.x[i + 1]), Dx2(prob)),
         RMul(RMul(RMul(prob.lambda0, prob.lambda0), call.x[i]),
              RSub(Uno, RPow(call.x[i], prob.nu))))

ZeroAtEnds(f) == f[0] = Zero /\ f[prob.nvars - 1] = Zero

\* C14 -- eval_f.  Every returned component is 0 at the indices 0 and N-1;
\* the fully-implicit variant returns (A u)_i + lambda0^2 u_i (1 - u_i^nu) at
\* every interior i; the multi-implicit and the semi-implicit variant return
\* the diffusion part and the reaction part as two components whose sum is
\* the fully-implicit result; u is left as it was.
C14_EvalF ==
    /\ Done("eval_f_fully") =>
          /\ ZeroAtEnds(result.val.f)
          /\ \A i \in Interior :
                result.val.f[i] = ClaimedRhs(i) /\ result.val.f[i] = ClaimedRhsStencil(i)
          /\ DOMAIN result.val.f = Rows
          /\ result.val.u = call.x
    /\ Done("eval_f") =>
          /\ ZeroAtEnds(result.val.comp1) /\ ZeroAtEnds(result.val.comp2)
          /\ \A i \in Interior :
                /\ result.val.comp1[i] = MatMult(A, call.x)[i]
                /\ result.val.comp2[i] = Reaction(prob, call.x[i])
          /\ \A i \in Rows :
                RAdd(result.val.comp1[i], result.val.comp2[i]) = EvalFFully(prob, A, call.x).f[i]
          /\ result.val.u = call.x
    /\ Done("eval_f_semi") =>
          /\ ZeroAtEnds(result.val.impl) /\ ZeroAtEnds(result.val.expl)
          /\ \A i \in Interior :
                /\ result.val.impl[i] = MatMult(A, call.x)[i]
                /\ result.val.expl[i] = Reaction(prob, call.x[i])
          /\ \A i \in Rows :
                RAdd(result.val.impl[i], result.val.expl[i]) = EvalFFully(prob, A, call.x).f[i]
          /\ result.val.u = call.x

\* the fully-implicit eval_f on a grid with three interior points, both parts
\* of the right-hand side nonzero at point 2
C14_Witness ==
    /\ Done("eval_f_fully") /\ prob.nvars = 5
    /\ MatMult(A, call.x)[2] # Zero /\ Reaction(prob, call.x[2]) # Zero
    /\ call.x[0] # Zero

\* the multi-implicit and the semi-implicit eval_f likewise
C14_WitnessMulti == Done("eval_f") /\ prob.nvars = 5 /\ result.val.comp1[2] # Zero
                    /\ result.val.comp2[2] # Zero
C14_WitnessSemi == Done("eval_f_semi") /\ prob.nvars = 5 /\ result.val.impl[2] # Zero
                   /\ result.val.expl[2] # Zero

-----------------------------------------------------------------------------
(***************************************************************************)
(* Properties of solve calls of two threads (under SpecOverlap).           *)
(***************************************************************************)
AllIdle == \A t \in Threads : th[t].pc = "idle"

\* thread t has run its backend solve in the call it is in or has just left
Solved(t) == th[t].ran # <<>>

\* the solve of thread t ran with a provider (an operator) of another factor
RanForeign(t) == Solved(t) /\ th[t].ran # Own(t)

\* the counters account for every solve that returned
NothingLost ==
    /\ ksp_ncalls = NumSolves(completed, "ksp")
    /\ ksp_itercount = SumIts(completed, "ksp")
    /\ snes_ncalls = NumSolves(completed, "snes")
    /\ snes_itercount = SumIts(completed, "snes")

\* C12 -- overlapping solves on a shared instance are unsafe, serialized
\* ones are safe.  Every solve call registers a provider bound to its own
\* factor on the one snes, replacing what was registered.  As long as no two
\* calls on the instance have been in progress at the same time, every
\* backend solve runs with the providers (the operator) of its own call and,
\* between calls, the counters account for every solve; a solve that runs
\* with another call's providers, and a lost counter update, happen only
\* when calls overlap.
C12_SerializedSafe ==
    /\ \A t \in Threads : RanForeign(t) => overlap
    /\ (AllIdle /\ ~NothingLost) => overlap
    /\ \A t \in Threads :
          th[t].pc = "solve" /\ th[t].backend = "snes" /\ ~overlap
             => snes_reg = Target(t) /\ snes_jac = Target(t)

\* two overlapping nonlinear calls with different factors: one solve ran with
\* the residual and Jacobian provider of the other call
C12_Witness ==
    \E t \in Threads, o \in Threads :
        /\ t # o /\ overlap
        /\ th[t].backend = "snes" /\ th[o].backend = "snes"
        /\ th[t].factor # th[o].factor
        /\ Solved(t) /\ th[t].ran = <<Target(o), Target(o)>>

\* two overlapping calls, both returned, and a call counter lost an update
C12_WitnessLostUpdate ==
    /\ AllIdle /\ overlap
    /\ Len(completed) = 2
    /\ ksp_ncalls + snes_ncalls = 1

\* two calls with different factors made one after the other, both returned
C12_WitnessSerial ==
    /\ AllIdle /\ ~overlap /\ NothingLost
    /\ snes_ncalls = 2
    /\ \E t \in Threads, o \in Threads :
          t # o /\ Solved(t) /\ Solved(o) /\ th[t].factor # th[o].factor

-----------------------------------------------------------------------------
(***************************************************************************)
(* Properties of get_finite_difference_stencil (under SpecStencil).        *)
(***************************************************************************)
StencilDone == spc = "done" /\ sreq.steps = <<>>

\* the returned offsets and weights, sorted by offset, are the reference ones
MatchesReference ==
    LET ref == Reference(sreq.derivative, sreq.order, sreq.stencil_type)
    IN  /\ sout.kind = "return"
        /\ Len(sout.steps) = Len(ref.stencil)
        /\ SortedBy(sout.steps, sout.steps) = SortedBy(StepsReference(ref), StepsReference(ref))
        /\ SortedBy(sout.steps, sout.coeff) = SortedBy(StepsReference(ref), CoeffReference(ref))

\* C13 -- stencil accuracy, as claimed.  For derivative 1 with orders 1..5
\* upwind, derivative 1 with orders 2, 4, 6 centered and derivative 2 with
\* orders 2, 4, 6, 8 centered, the offsets and weights returned, sorted by
\* offset, equal the reference offsets and coefficients; derivative 1 order 3
\* forward and derivative 2 order 2 backward return the expected weights.
C13_StencilAccuracy ==
    StencilDone =>
       /\ InReference(sreq.derivative, sreq.order, sreq.stencil_type) => MatchesReference
       /\ (sreq.derivative = 1 /\ sreq.order = 3 /\ sreq.stencil_type = "forward")
             => sout.kind = "return" /\ sout.coeff = ForwardExpected
       /\ (sreq.derivative = 2 /\ sreq.order = 2 /\ sreq.stencil_type = "backward")
             => sout.kind = "return" /\ sout.coeff = BackwardExpected

\* C13 without the upwind stencils of order 3 and more
C13_ExceptUpwindFrom3 ==
    (StencilDone /\ ~(sreq.stencil_type = "upwind" /\ sreq.order >= 3)) => C13_StencilAccuracy

\* on the reference offsets, handed over as steps, the weights are the
\* reference coefficients, for every entry of the reference table
C13_WeightsOnReferenceSteps ==
    (spc = "done" /\ sreq.steps # <<>>) =>
       \A o \in Orders, ty \in StencilTypes :
          LET ref == Reference(sreq.derivative, o, ty)
          IN  (InReference(sreq.derivative, o, ty) /\ StepsReference(ref) = sreq.steps)
                 => sout.kind = "return" /\ sout.coeff = CoeffReference(ref)

\* the upwind stencil of order 3 was returned
C13_Witness ==
    /\ StencilDone /\ sout.kind = "return"
    /\ sreq.derivative = 1 /\ sreq.order = 3 /\ sreq.stencil_type = "upwind"

=============================================================================
